---------------------------- MODULE Spec2Model ----------------------------
(***************************************************************************)
(* Open Osmosis sushi chef (chef.py): the YouTube playlist harvest, the    *)
(* assessment-topic crawl with its taxonomy match, the next-link walk with *)
(* retry / backoff / skip-missing-images fallback, and the grouping of     *)
(* questions into exercise nodes of QUESTIONS_PER_EXERCISE items.          *)
(*                                                                         *)
(* Python strings are TLA+ strings; Python None is the value None below;   *)
(* object references (topic nodes, exercise nodes) are positions in the    *)
(* sequence that owns the object.                                          *)
(***************************************************************************)
EXTENDS Integers, Sequences, FiniteSets, TLC

(***************************************************************************)
(* Bounds of the explored inputs.                                          *)
(***************************************************************************)
MaxPlaylists == 1   \* playlists returned by the YouTube channel
MaxTopics == 2      \* topic links on the listing page
MaxPages == 6       \* item pages of the assessment site, all topics together

None == "<None>"

Truthy(v) == v # None /\ v # ""

(***************************************************************************)
(* str.startswith, str.endswith, str.split('/')[-1]                        *)
(***************************************************************************)
StartsWith(s, p) == Len(s) >= Len(p) /\ SubSeq(s, 1, Len(p)) = p

EndsWith(s, p) == Len(s) >= Len(p) /\ SubSeq(s, Len(s) - Len(p) + 1, Len(s)) = p

RECURSIVE LastSlash(_, _)
LastSlash(s, k) ==
    IF k = 0 THEN 0
    ELSE IF SubSeq(s, k, k) = "/" THEN k
    ELSE LastSlash(s, k - 1)

LastSegment(s) == SubSeq(s, LastSlash(s, Len(s)) + 1, Len(s))

(***************************************************************************)
(* str.strip                                                               *)
(***************************************************************************)
\* The characters str.strip removes (those of str.isspace): blank, tab, line
\* feed, carriage return, form feed, and, written as the characters
\* themselves, U+000B (vertical tab), U+001C .. U+001F (file, group, record
\* and unit separator), U+0085 (next line), U+00A0 (no-break space) and
\* U+1680 (ogham space mark).  The remaining ones (U+2000 .. U+200A, U+2028,
\* U+2029, U+202F, U+205F, U+3000) cannot be written in a string of a module.
Whitespace ==
    {" ", "\t", "\n", "\r", "\f",
     "", "", "", "", "",
     "", " ", " "}

RECURSIVE LStrip(_)
LStrip(s) ==
    IF Len(s) > 0 /\ SubSeq(s, 1, 1) \in Whitespace
    THEN LStrip(SubSeq(s, 2, Len(s))) ELSE s

RECURSIVE RStrip(_)
RStrip(s) ==
    IF Len(s) > 0 /\ SubSeq(s, Len(s), Len(s)) \in Whitespace
    THEN RStrip(SubSeq(s, 1, Len(s) - 1)) ELSE s

Strip(s) == RStrip(LStrip(s))

ORIGIN == "https://open.osmosis.org"

make_fully_qualified_url(url) ==
    IF StartsWith(url, "//") THEN "http:" \o url
    ELSE IF StartsWith(url, "/") THEN ORIGIN \o url
    ELSE IF ~StartsWith(url, "http") THEN ORIGIN \o "/" \o url
    ELSE url

(***************************************************************************)
(* QUESTION_VIDEO_MAP.  The dict literal lists seven entries under the key *)
(* None; a dict keeps the last one.  QuestionVideoMapGet is dict.get.      *)
(***************************************************************************)
QUESTION_VIDEO_MAP ==
    [k \in {"Genetics", "Dermatology", "Heme/Onc", "Neurology", "Renal",
            "Cardiology", "GI", "Endocrine", "Reproduction", "MSK",
            "Pediatrics", "Pulmonology", "Psychiatry", "Microbiology",
            "Anesthesiology", "Emergency Medicine", "Osteopathic Principles",
            "Ophthalmology", "Radiology", "Surgery", None} |->
        CASE k = "Genetics" -> "Genetics pathology"
          [] k = "Dermatology" -> "Dermatology pathology"
          [] k = "Heme/Onc" -> "Hematology pathology"
          [] k = "Neurology" -> "Neurological pathology"
          [] k = "Renal" -> "Renal pathology"
          [] k = "Cardiology" -> "Cardiovascular pathology"
          [] k = "GI" -> "Gastrointestinal pathology"
          [] k = "Endocrine" -> "Endocrine pathology"
          [] k = "Reproduction" -> "Reproductive pathology"
          [] k = "MSK" -> "Musculoskeletal pathology"
          [] k = "Pediatrics" -> "Pediatrics videos"
          [] k = "Pulmonology" -> "Respiratory pathology"
          [] k = "Psychiatry" -> "Mental health and disorders"
          [] k = "Microbiology" -> "Infectious disease pathology"
          [] k = None -> "Maternal pathology"
          [] OTHER -> None]

QuestionVideoMapGet(text) ==
    IF text \in DOMAIN QUESTION_VIDEO_MAP THEN QUESTION_VIDEO_MAP[text] ELSE None

(***************************************************************************)
(* The two sites, as far as the chef reads them.                           *)
(***************************************************************************)
\* A deleted video of a playlist (youtube_dl yields None for it).
NoVideo == [id |-> None, title |-> None, description |-> None]

\* Playlists the YouTube channel may list.  The second video of PLend has an
\* empty description; the first line of the description of yt3 ends at U+001C.
PlaylistCatalog ==
    { [id |-> "PLgen", title |-> "Genetics pathology",
       entries |-> << [id |-> "yt1", title |-> "Down syndrome",
                       description |-> "Trisomy 21.\nSubscribe - https://osms.it/s"],
                      NoVideo,
                      [id |-> "yt2", title |-> "Turner syndrome",
                       description |-> "One X. Subscribe - https://osms.it/s"] >>],
      [id |-> "PLphy", title |-> "Physiology",
       entries |-> << [id |-> "yt3", title |-> "Cardiac output",
                       description |-> "Stroke volume times heart rate.See also."] >>],
      [id |-> "PLend", title |-> "Endocrine pathology",
       entries |-> << [id |-> "yt4", title |-> "Diabetes mellitus",
                       description |-> "Insulin."],
                      [id |-> "yt5", title |-> "Graves disease",
                       description |-> ""],
                      [id |-> "yt6", title |-> "Goiter",
                       description |-> "Iodine."] >>] }

\* Topic links the listing page may show: the <a href>, its text, its <img src>.
\* The text of the first is padded with a line feed, U+000B and a blank in
\* front and a tab and U+001F behind.
TopicLinks ==
    { [href |-> "/topics/7", text |-> "\n Genetics\t", img |-> "//cdn.osmosis.org/7.png"],
      [href |-> "/topics/8", text |-> "Anesthesiology", img |-> "//cdn.osmosis.org/8.png"],
      [href |-> "/topics/9", text |-> "Zoology", img |-> "//cdn.osmosis.org/9.png"] }

\* The sequences of at most n distinct elements of S: neither site lists an
\* entry twice.
SeqsUpTo(S, n) ==
    { q \in UNION { [1..k -> S] : k \in 0..n } :
        \A a, b \in DOMAIN q : a # b => q[a] # q[b] }

\* Item pages are /item/<topic id><position>; /topics/<id> redirects to the
\* first item of the topic.
ItemHref(topic_id, j) == "/item/" \o topic_id \o ToString(j)

Canonical(url) ==
    IF StartsWith(url, ORIGIN \o "/topics/")
    THEN ORIGIN \o ItemHref(LastSegment(url), 1)
    ELSE url

\* Position in its chain of the item page at url; 0 if url is no item page.
PageNo(url) ==
    LET id == LastSegment(url)
        js == { j \in 1..(MaxPages + 1) : ToString(j) = SubSeq(id, 2, Len(id)) }
    IN IF js = {} THEN 0 ELSE CHOOSE j \in js : TRUE

TextNode(t, fwb) == [nimg |-> 0, img |-> FALSE, src |-> None, text |-> t, fwb |-> fwb]

ImageNode(src, credit, hasTag) ==
    [nimg |-> 1, img |-> hasTag, src |-> src, text |-> credit, fwb |-> FALSE]

RenderKinds == {"ok", "noimg", "nostem"}

\* The first question of every five is illustrated.
HasImages(j) == j % 5 = 1

\* The DOM the driver returns for the page at url.  kind is how this render
\* came out: complete, with the <img> of the image blocks not (yet) there,
\* or without the stem and the correct-answer marker.  ch is the topic's chain:
\* its length and how its last page ends (no next link, or a link to 'null').
\* A URL past the chain gives a page without any question.
RenderedDom(url, kind, ch) ==
    LET id == LastSegment(url)
        j == PageNo(url)
        exists == j \in 1..ch.len
        tag == kind # "noimg"
    IN [ has_stem |-> exists /\ kind # "nostem",
         stem |-> << TextNode("Stem " \o id, FALSE) >>
                  \o (IF HasImages(j)
                      THEN << ImageNode("/img/" \o id \o ".png", "Fig " \o id, tag) >>
                      ELSE <<>>)
                  \o << TextNode("Which one?", TRUE) >>,
         answers |-> << "A" \o id, "B" \o id >>,
         has_correct |-> exists /\ kind # "nostem",
         correct |-> "B" \o id,
         explain_ans |-> << TextNode("Because " \o id, FALSE) >>,
         explain |-> IF HasImages(j)
                     THEN << ImageNode("/img/x" \o id \o ".png", "Ex " \o id, tag) >>
                     ELSE << TextNode("See " \o id, FALSE) >>,
         next_link |-> exists /\ (j < ch.len \/ ch.last = "null"),
         next_href |-> IF j < ch.len THEN ItemHref(SubSeq(id, 1, 1), j + 1)
                       ELSE "/item/null" ]

(***************************************************************************)
(* _process_text_into_markdown and fetch_assessment_item.  A raised        *)
(* exception is the result [ok |-> FALSE].                                 *)
(***************************************************************************)
Raised == [ok |-> FALSE, val |-> None]

RECURSIVE ProcessNodes(_, _, _, _)
ProcessNodes(nodes, k, skip_missing_images, markdown_text) ==
    IF k > Len(nodes) THEN [ok |-> TRUE, val |-> markdown_text]
    ELSE LET node == nodes[k]
             text == Strip(node.text)
         IN IF node.nimg > 0
            THEN IF node.nimg # 1 THEN Raised
                 ELSE IF ~node.img
                 THEN IF skip_missing_images
                      THEN ProcessNodes(nodes, k + 1, skip_missing_images, markdown_text)
                      ELSE Raised
                 ELSE ProcessNodes(nodes, k + 1, skip_missing_images,
                        markdown_text \o "![" \o text \o "](" \o node.src
                            \o ")\n\n" \o text \o "\n\n")
            ELSE ProcessNodes(nodes, k + 1, skip_missing_images,
                    markdown_text
                        \o (IF node.fwb THEN "**" \o text \o "**" ELSE text)
                        \o "\n\n")

\* Mutant: the skip_missing_images flag is not honoured.
_process_text_into_markdown_noskip(container_node, skip_missing_images) ==
    ProcessNodes(container_node, 1, FALSE, "")

_process_text_into_markdown(container_node, skip_missing_images) ==
    ProcessNodes(container_node, 1, skip_missing_images, "")

\* Mutant: the 'null' target of the next link is taken for a page.
fetch_assessment_item_nosentinel(dom, id, skip_missing_images) ==
    LET hint_1 == _process_text_into_markdown(dom.explain_ans, skip_missing_images)
        hint_2 == _process_text_into_markdown(dom.explain, skip_missing_images)
        question_markdown ==
            IF dom.has_stem
            THEN _process_text_into_markdown(dom.stem, skip_missing_images)
            ELSE Raised
    IN IF question_markdown.ok /\ dom.has_correct /\ hint_1.ok /\ hint_2.ok
       THEN [ok |-> TRUE,
             question |-> [id |-> id,
                           hints |-> hint_1.val \o "\n\nMain Explanation\n---\n\n"
                                        \o hint_2.val,
                           question |-> question_markdown.val,
                           all_answers |-> [a \in DOMAIN dom.answers |->
                                                Strip(dom.answers[a])],
                           correct_answer |-> Strip(dom.correct)],
             next_item_url |-> IF dom.next_link
                               THEN make_fully_qualified_url(dom.next_href)
                               ELSE None]
       ELSE [ok |-> FALSE, question |-> None, next_item_url |-> None]

fetch_assessment_item(page_html, item_id, skip_missing_images) ==
    LET doc == page_html
        question_markdown ==
            IF doc.has_stem
            THEN _process_text_into_markdown(doc.stem, skip_missing_images)
            ELSE Raised
        hint_1 == _process_text_into_markdown(doc.explain_ans, skip_missing_images)
        hint_2 == _process_text_into_markdown(doc.explain, skip_missing_images)
        next_item_url ==
            IF doc.next_link /\ ~EndsWith(doc.next_href, "null")
            THEN make_fully_qualified_url(doc.next_href)
            ELSE None
    IN IF question_markdown.ok /\ doc.has_correct /\ hint_1.ok /\ hint_2.ok
       THEN [ok |-> TRUE,
             question |-> [id |-> item_id,
                           hints |-> hint_1.val \o "\n\nMain Explanation\n---\n\n"
                                        \o hint_2.val,
                           question |-> question_markdown.val,
                           all_answers |-> [a \in DOMAIN doc.answers |->
                                                Strip(doc.answers[a])],
                           correct_answer |-> Strip(doc.correct)],
             next_item_url |-> next_item_url]
       ELSE [ok |-> FALSE, question |-> None, next_item_url |-> None]


(***************************************************************************)
(* truncate_metadata, truncate_description, fetch_video, _title_exercise   *)
(***************************************************************************)
MAX_CHARS == 190

truncate_metadata(data_string) ==
    IF Len(data_string) > MAX_CHARS
    THEN SubSeq(data_string, 1, 190) \o " ..."
    ELSE data_string

\* The line boundaries of str.splitlines: line feed, carriage return, form
\* feed, and, written as the characters themselves, U+000B (vertical tab),
\* U+001C .. U+001E (file, group and record separator) and U+0085 (next
\* line).  The remaining ones (U+2028, U+2029) cannot be written in a string
\* of a module.
LineBreaks ==
    {"\n", "\r", "\f",
     "", "", "", "",
     ""}

\* Position of the first line boundary of s at or after k; Len(s) + 1 if none.
RECURSIVE FirstBreak(_, _)
FirstBreak(s, k) ==
    IF k > Len(s) \/ SubSeq(s, k, k) \in LineBreaks THEN k
    ELSE FirstBreak(s, k + 1)

\* Position of the first "Subscribe - " of s at or after k; Len(s) + 1 if none.
RECURSIVE FirstSubscribe(_, _)
FirstSubscribe(s, k) ==
    IF k + 11 > Len(s) THEN Len(s) + 1
    ELSE IF SubSeq(s, k, k + 11) = "Subscribe - " THEN k
    ELSE FirstSubscribe(s, k + 1)

\* description.splitlines()[0] with 'Subscribe - .*$' removed.  splitlines of
\* the empty string is the empty list, and None has no splitlines: both raise.
truncate_description(description) ==
    IF description = None \/ description = "" THEN Raised
    ELSE LET first_line == SubSeq(description, 1, FirstBreak(description, 1) - 1)
         IN [ok |-> TRUE,
             val |-> SubSeq(first_line, 1, FirstSubscribe(first_line, 1) - 1)]

\* The VideoNode of a playlist entry; ok is FALSE when truncate_description
\* raises.
fetch_video(video) ==
    LET description == truncate_description(video.description)
    IN [ok |-> description.ok,
        node |-> [kind |-> "video", source_id |-> video.id,
                  title |-> truncate_metadata(video.title),
                  description |-> description.val]]

_title_exercise(topic_title, first_item, last_item) ==
    topic_title \o " Questions " \o ToString(first_item) \o "-" \o ToString(last_item)

QUESTIONS_PER_EXERCISE == 5

(***************************************************************************)
(* State.                                                                  *)
(*   info, listing      what the two sites return (fixed during a run)     *)
(*   chain              the next-link chain of the topic being walked      *)
(*   channel            the children of the ChannelNode: topic nodes, each *)
(*                      with its children (video and exercise nodes)       *)
(*   topics_map         playlist title -> position of its node in channel  *)
(*   pc, pi, ti         control: phase, playlist index, topic index        *)
(*   the remaining program variables are the locals of                     *)
(*   fetch_assessment_topic_items, under their names                       *)
(*   trace              the driver / sleep / parse calls made for the      *)
(*                      current item, in order                             *)
(*   extract_log        every question appended so far, in order           *)
(*   walk_base          number of children of topic_node when its walk     *)
(*                      began                                              *)
(*   given_url          an argument of make_fully_qualified_url            *)
(*   normalized         the results of applying it to given_url, once and  *)
(*                      again                                              *)
(***************************************************************************)
VARIABLES info, listing, chain, channel, topics_map, pc, pi, ti,
          topic_node, topic_short_title, thumbnail,
          next_item_url, item_count, current_url, item_id,
          first_item_index_in_exercise, exercise_node, i, page_html, question,
          trace, extract_log, walk_base, given_url, normalized

world == <<info, listing>>
tree == <<channel, topics_map>>
walker == <<topic_node, topic_short_title, thumbnail, next_item_url, item_count,
            current_url, item_id, first_item_index_in_exercise, exercise_node,
            i, page_html, question>>
urlcheck == <<given_url, normalized>>
vars == <<info, listing, chain, channel, topics_map, pc, pi, ti,
          topic_node, topic_short_title, thumbnail,
          next_item_url, item_count, current_url, item_id,
          first_item_index_in_exercise, exercise_node, i, page_html, question,
          trace, extract_log, walk_base, given_url, normalized>>

NoChain == [len |-> 0, last |-> "absent"]

\* Values of the locals page_html and question while they are unbound.
NoDom ==
    [has_stem |-> FALSE, stem |-> <<>>, answers |-> <<>>, has_correct |-> FALSE,
     correct |-> None, explain_ans |-> <<>>, explain |-> <<>>,
     next_link |-> FALSE, next_href |-> None]

NoQuestion ==
    [id |-> None, hints |-> None, question |-> None, all_answers |-> <<>>,
     correct_answer |-> None]

\* The chains the topic at topic_url may have.  Every topic link not yet
\* visited leads to at least one page; the last page of topic 8 has no next
\* link, the last page of the other topics links to /item/null.
Chains(topic_url) ==
    [len : 1..(MaxPages - Len(extract_log) - (Len(listing) - ti)),
     last : {IF LastSegment(topic_url) = "8" THEN "absent" ELSE "null"}]

Ev(op, url, secs) == [op |-> op, url |-> url, secs |-> secs]

Init ==
    /\ info \in SeqsUpTo(PlaylistCatalog, MaxPlaylists)
    /\ listing \in SeqsUpTo(TopicLinks, MaxTopics)
    /\ chain = NoChain
    /\ channel = <<>>
    /\ topics_map = [t \in {} |-> 0]
    /\ pc = "playlists"
    /\ pi = 1
    /\ ti = 1
    /\ topic_node = 0
    /\ topic_short_title = None
    /\ thumbnail = None
    /\ next_item_url = None
    /\ item_count = 0
    /\ current_url = None
    /\ item_id = None
    /\ first_item_index_in_exercise = 0
    /\ exercise_node = 0
    /\ i = 0
    /\ page_html = NoDom
    /\ question = NoQuestion
    /\ trace = <<>>
    /\ extract_log = <<>>
    /\ walk_base = 0
    /\ given_url = None
    /\ normalized = <<>>

(***************************************************************************)
(* fetch_youtube_playlists: one iteration of the loop over the playlists.  *)
(* The playlist node is registered and attached before its videos are      *)
(* fetched; an exception of fetch_video is caught nowhere and ends the run *)
(* with the videos added so far.                                           *)
(***************************************************************************)
\* Lines 135-137: the video nodes added to the playlist node, from entry j on
\* and after those in added; ok is FALSE when fetch_video raised, and nodes
\* are then the ones added before it did.
RECURSIVE FetchVideos(_, _, _)
FetchVideos(entries, j, added) ==
    IF j > Len(entries) THEN [ok |-> TRUE, nodes |-> added]
    ELSE IF entries[j] # NoVideo
         THEN LET video_node == fetch_video(entries[j])
              IN IF video_node.ok
                 THEN FetchVideos(entries, j + 1, Append(added, video_node.node))
                 ELSE [ok |-> FALSE, nodes |-> added]
         ELSE FetchVideos(entries, j + 1, added)

HarvestPlaylist ==
    /\ pc = "playlists"
    /\ pi <= Len(info)
    /\ LET playlist == info[pi]
           title == playlist.title
           videos == FetchVideos(playlist.entries, 1, <<>>)
           playlist_topic == [source_id |-> playlist.id, title |-> playlist.title,
                              thumbnail |-> None,
                              children |-> videos.nodes]
       IN /\ topics_map' = [t \in DOMAIN topics_map \cup {title} |->
                                IF t = title THEN Len(channel) + 1 ELSE topics_map[t]]
          /\ channel' = Append(channel, playlist_topic)
          /\ pi' = IF videos.ok THEN pi + 1 ELSE pi
          /\ pc' = IF videos.ok THEN "playlists" ELSE "crashed"
    /\ UNCHANGED <<urlcheck, world, chain, ti, walker, trace, extract_log, walk_base>>

\* Mutant: the loop over the playlists ends one playlist short.
StartAssessments_early ==
    /\ pc = "playlists"
    /\ pi >= Len(info)
    /\ pc' = "topics"
    /\ UNCHANGED <<urlcheck, world, chain, tree, pi, ti, walker, trace, extract_log,
                   walk_base>>

\* fetch_youtube_playlists returns; fetch_assessment_topics loads the listing.
StartAssessments ==
    /\ pc = "playlists"
    /\ pi > Len(info)
    /\ pc' = "topics"
    /\ UNCHANGED <<urlcheck, world, chain, tree, pi, ti, walker, trace, extract_log, walk_base>>

(***************************************************************************)
(* fetch_assessment_topics: the body of the loop over the topic links, up  *)
(* to the call of fetch_assessment_topic_items (whose first two statements *)
(* are included).                                                          *)
(***************************************************************************)
TopicsMapGet(m, title) == IF title \in DOMAIN m THEN m[title] ELSE 0

\* Mutant: the thumbnail of a playlist node that is found is left alone.
Resolve_nothumbnail(text, topic_id, img, nodes, map) ==
    LET video_topic_name == QuestionVideoMapGet(text)
        found == IF Truthy(video_topic_name)
                 THEN TopicsMapGet(map, video_topic_name) ELSE 0
    IN IF found # 0
       THEN [nodes |-> [nodes EXCEPT
                          ![found].title = text \o " (" \o video_topic_name \o ")"],
             topic_node |-> found]
       ELSE [nodes |-> Append(nodes, [source_id |-> topic_id, title |-> text,
                                      thumbnail |-> img, children |-> <<>>]),
             topic_node |-> Len(nodes) + 1]

\* Mutant: a playlist node that is found is renamed, and a new node is made
\* all the same ("if not topic_node" taken for "else").
Resolve_alwaysnew(text, topic_id, img, nodes, map) ==
    LET video_topic_name == QuestionVideoMapGet(text)
        found == IF Truthy(video_topic_name)
                 THEN TopicsMapGet(map, video_topic_name) ELSE 0
        renamed == IF found # 0
                   THEN [nodes EXCEPT
                           ![found].title = text \o " (" \o video_topic_name \o ")",
                           ![found].thumbnail = img]
                   ELSE nodes
    IN [nodes |-> Append(renamed, [source_id |-> topic_id, title |-> text,
                                   thumbnail |-> img, children |-> <<>>]),
        topic_node |-> Len(nodes) + 1]

\* Mutant: add_child is called for a playlist node that is found, too.
Resolve_reattach(text, topic_id, img, nodes, map) ==
    LET video_topic_name == QuestionVideoMapGet(text)
        found == IF Truthy(video_topic_name)
                 THEN TopicsMapGet(map, video_topic_name) ELSE 0
        renamed == [nodes EXCEPT
                      ![found].title = text \o " (" \o video_topic_name \o ")",
                      ![found].thumbnail = img]
    IN IF found # 0
       THEN [nodes |-> Append(renamed, renamed[found]), topic_node |-> found]
       ELSE [nodes |-> Append(nodes, [source_id |-> topic_id, title |-> text,
                                      thumbnail |-> img, children |-> <<>>]),
             topic_node |-> Len(nodes) + 1]

\* Lines 165-177: the topic node for the topic link (text, topic_id, img),
\* found among the playlist nodes or created.  nodes is the channel's
\* children; the result is the children afterwards and the position of the
\* topic node.
Resolve(text, topic_id, img, nodes, map) ==
    LET video_topic_name == QuestionVideoMapGet(text)
        found == IF Truthy(video_topic_name)
                 THEN TopicsMapGet(map, video_topic_name) ELSE 0
    IN IF found # 0
       THEN [nodes |-> [nodes EXCEPT
                          ![found].title = text \o " (" \o video_topic_name \o ")",
                          ![found].thumbnail = img],
             topic_node |-> found]
       ELSE [nodes |-> Append(nodes, [source_id |-> topic_id, title |-> text,
                                      thumbnail |-> img, children |-> <<>>]),
             topic_node |-> Len(nodes) + 1]

ResolveTopic ==
    /\ pc = "topics"
    /\ ti <= Len(listing)
    /\ LET link == listing[ti]
           href == link.href
           topic_id == LastSegment(href)
           url == make_fully_qualified_url(href)
           text == Strip(link.text)
           img == link.img
           r == Resolve(text, topic_id, img, channel, topics_map)
       IN /\ channel' = r.nodes
          /\ topic_node' = r.topic_node
          /\ walk_base' = Len(r.nodes[r.topic_node].children)
          /\ topic_short_title' = text
          /\ thumbnail' = img
          /\ next_item_url' = url
          /\ item_count' = 0
    /\ chain' \in Chains(next_item_url')
    /\ pc' = "nav"
    /\ trace' = <<>>
    /\ UNCHANGED <<urlcheck, world, topics_map, pi, ti, current_url, item_id,
                   first_item_index_in_exercise, exercise_node, i, page_html,
                   question, extract_log>>

\* The loop over the topic links is exhausted: construct_channel returns.
FinishCrawl ==
    /\ pc = "topics"
    /\ ti > Len(listing)
    /\ pc' = "finished"
    /\ UNCHANGED <<urlcheck, world, chain, tree, pi, ti, walker, trace, extract_log, walk_base>>

(***************************************************************************)
(* fetch_assessment_topic_items                                            *)
(***************************************************************************)
\* range(0, 4) of the retry loop, and the wait of its handler.
RETRIES == 4

\* Mutant: linear instead of exponential backoff.
WaitTime_linear(attempt) == 2 * attempt

WaitTime(attempt) == 2 ^ attempt

\* Mutant: the exception handler detaches what the walk had attached.
Propagate_rollback ==
    /\ pc' = "crashed"
    /\ channel' = [channel EXCEPT ![topic_node].children = SubSeq(@, 1, walk_base)]
    /\ UNCHANGED <<question, next_item_url, item_count, extract_log>>

\* An exception leaves fetch_assessment_topic_items, fetch_assessment_topics
\* and construct_channel: none of them catches it, and nothing is undone.
Propagate ==
    /\ pc' = "crashed"
    /\ UNCHANGED <<channel, question, next_item_url, item_count, extract_log>>

\* Mutant: the batch boundary is one item late.
NewExerciseDue_late(count) == count % (QUESTIONS_PER_EXERCISE + 1) = 0

\* Line 206: a new exercise node is due.
NewExerciseDue(count) == count % QUESTIONS_PER_EXERCISE = 0

\* Top of the while loop: driver.get, item id, exercise node every 5 items.
Navigate ==
    /\ pc = "nav"
    /\ Truthy(next_item_url)
    /\ current_url' = Canonical(next_item_url)
    /\ item_id' = LastSegment(current_url')
    /\ IF NewExerciseDue(item_count)
       THEN /\ first_item_index_in_exercise' = item_count
            /\ channel' = [channel EXCEPT ![topic_node].children = Append(@,
                             [kind |-> "exercise", source_id |-> item_id',
                              title |-> _title_exercise(topic_short_title,
                                            item_count + 1,
                                            item_count + QUESTIONS_PER_EXERCISE),
                              thumbnail |-> thumbnail, questions |-> <<>>])]
            /\ exercise_node' = Len(channel[topic_node].children) + 1
       ELSE UNCHANGED <<first_item_index_in_exercise, channel, exercise_node>>
    /\ i' = 0
    /\ pc' = "extract"
    /\ trace' = <<Ev("get", next_item_url, 0)>>
    /\ UNCHANGED <<urlcheck, world, chain, topics_map, pi, ti, topic_node, topic_short_title,
                   thumbnail, next_item_url, item_count, page_html, question,
                   extract_log, walk_base>>

\* driver.get at the top of the loop raises: nothing catches it.
NavigateRaises ==
    /\ pc = "nav"
    /\ Truthy(next_item_url)
    /\ Propagate
    /\ trace' = <<Ev("get", next_item_url, 0)>>
    /\ UNCHANGED <<urlcheck, world, chain, topics_map, pi, ti, topic_node, topic_short_title,
                   thumbnail, current_url, item_id, first_item_index_in_exercise,
                   exercise_node, i, page_html, walk_base>>

\* Mutant: the question is put in front of the exercise's questions.
Appended_prepend(q, next) ==
    /\ channel' = [channel EXCEPT
                     ![topic_node].children[exercise_node].questions = <<q>> \o @]
    /\ question' = q
    /\ next_item_url' = next
    /\ item_count' = item_count + 1
    /\ extract_log' = Append(extract_log, [topic |-> ti, node |-> topic_node,
                                           url |-> current_url, id |-> q.id])
    /\ pc' = IF Truthy(next) THEN "nav" ELSE "retitle"

\* exercise_node.add_question(question); item_count += 1; loop test.
Appended(q, next) ==
    /\ channel' = [channel EXCEPT
                     ![topic_node].children[exercise_node].questions = Append(@, q)]
    /\ question' = q
    /\ next_item_url' = next
    /\ item_count' = item_count + 1
    /\ extract_log' = Append(extract_log, [topic |-> ti, node |-> topic_node,
                                           url |-> current_url, id |-> q.id])
    /\ pc' = IF Truthy(next) THEN "nav" ELSE "retitle"

\* Mutant: the handler sleeps first and navigates afterwards.
ExceptHandler_sleepfirst(wait_time) ==
    << Ev("sleep", None, wait_time), Ev("get", current_url, 0) >>

\* Lines 227-228, the calls of the except handler: driver.get(current_url),
\* then time.sleep(wait_time).
ExceptHandler(wait_time) ==
    << Ev("get", current_url, 0), Ev("sleep", None, wait_time) >>

\* One pass of "for i in range(0, 4)": the try block, and on success the
\* statements after the loop; on an exception the handler, and the loop's
\* next value of i.  When range(0, 4) is exhausted i keeps its last value, 3,
\* and control goes to the else branch.  renav is whether the handler's
\* driver.get succeeds.
Attempt(kind, renav) ==
    /\ pc = "extract"
    /\ i < RETRIES
    /\ LET captured == kind # "fail"
           dom == IF captured THEN RenderedDom(current_url, kind, chain) ELSE page_html
           r == IF captured THEN fetch_assessment_item(dom, item_id, FALSE)
                ELSE [ok |-> FALSE, question |-> None, next_item_url |-> None]
           tried == Append(trace, Ev("html", None, 0))
           wait_time == WaitTime(i)
       IN /\ page_html' = dom
          /\ IF r.ok
             THEN /\ Appended(r.question, r.next_item_url)
                  /\ trace' = tried
                  /\ UNCHANGED i
             ELSE IF renav
             THEN /\ trace' = tried \o ExceptHandler(wait_time)
                  /\ i' = IF i + 1 < RETRIES THEN i + 1 ELSE i
                  /\ pc' = IF i + 1 < RETRIES THEN "extract" ELSE "degraded"
                  /\ UNCHANGED <<channel, question, next_item_url, item_count, extract_log>>
             ELSE /\ trace' = tried \o <<Ev("get", current_url, 0)>>
                  /\ Propagate
                  /\ UNCHANGED i
    /\ UNCHANGED <<urlcheck, world, chain, topics_map, pi, ti, topic_node, topic_short_title,
                   thumbnail, current_url, item_id, first_item_index_in_exercise,
                   exercise_node, walk_base>>

\* The else branch of the for loop: one pass with skip_missing_images=True,
\* outside any try.
Degraded(kind) ==
    /\ pc = "degraded"
    /\ LET captured == kind # "fail"
           dom == IF captured THEN RenderedDom(current_url, kind, chain) ELSE page_html
           r == IF captured THEN fetch_assessment_item(dom, item_id, TRUE)
                ELSE [ok |-> FALSE, question |-> None, next_item_url |-> None]
       IN /\ page_html' = dom
          /\ trace' = trace \o <<Ev("html", None, 0)>>
                            \o (IF captured THEN <<Ev("parse_skip", None, 0)>> ELSE <<>>)
          /\ IF r.ok
             THEN Appended(r.question, r.next_item_url)
             ELSE Propagate
    /\ UNCHANGED <<urlcheck, world, chain, topics_map, pi, ti, topic_node, topic_short_title,
                   thumbnail, current_url, item_id, first_item_index_in_exercise,
                   exercise_node, i, walk_base>>

\* Mutant: the re-title gives the 0-based index of the unit's first item.
Retitle_zerobased ==
    /\ pc = "retitle"
    /\ channel' = [channel EXCEPT ![topic_node].children[exercise_node].title =
                     _title_exercise(channel[topic_node].title,
                                     first_item_index_in_exercise, item_count)]
    /\ pc' = "walked"
    /\ UNCHANGED <<urlcheck, world, chain, topics_map, pi, ti, walker, trace,
                   extract_log, walk_base>>

\* After the while loop: re-title the last exercise node.
Retitle ==
    /\ pc = "retitle"
    /\ channel' = [channel EXCEPT ![topic_node].children[exercise_node].title =
                     _title_exercise(channel[topic_node].title,
                                     first_item_index_in_exercise + 1, item_count)]
    /\ pc' = "walked"
    /\ UNCHANGED <<urlcheck, world, chain, topics_map, pi, ti, walker, trace, extract_log,
                   walk_base>>

\* fetch_assessment_topic_items returns: its locals are gone, and the loop of
\* fetch_assessment_topics moves to the next topic link.
ReturnFromWalk ==
    /\ pc = "walked"
    /\ ti' = ti + 1
    /\ pc' = "topics"
    /\ chain' = NoChain
    /\ topic_node' = 0
    /\ topic_short_title' = None
    /\ thumbnail' = None
    /\ next_item_url' = None
    /\ item_count' = 0
    /\ current_url' = None
    /\ item_id' = None
    /\ first_item_index_in_exercise' = 0
    /\ exercise_node' = 0
    /\ i' = 0
    /\ page_html' = NoDom
    /\ question' = NoQuestion
    /\ trace' = <<>>
    /\ walk_base' = 0
    /\ UNCHANGED <<urlcheck, world, tree, pi, extract_log>>

Next ==
    \/ HarvestPlaylist
    \/ StartAssessments
    \/ ResolveTopic
    \/ FinishCrawl
    \/ Navigate
    \/ NavigateRaises
    \/ \E kind \in RenderKinds \cup {"fail"}, renav \in BOOLEAN : Attempt(kind, renav)
    \/ \E kind \in RenderKinds \cup {"fail"} : Degraded(kind)
    \/ Retitle
    \/ ReturnFromWalk

Spec == Init /\ [][Next]_vars

(***************************************************************************)
(* make_fully_qualified_url on its own: the function is applied to an      *)
(* argument, and then to its own result.  The arguments are a prefix       *)
(* (protocol-relative, rooted, none, a scheme, or the letters "http" of a  *)
(* relative path such as httpx.com/a) followed by a host and path.         *)
(***************************************************************************)
UrlPrefixes == {"//", "/", "", "http://", "https://", "ftp://", "mailto:", "http"}

UrlRests == {"x.com/a", "topics/5", "open.osmosis.org/item/9", "item/null",
             "cdn.osmosis.org/7.png"}

GivenUrls == { p \o r : p \in UrlPrefixes, r \in UrlRests }

UrlInit ==
    /\ given_url \in GivenUrls
    /\ normalized = <<>>
    /\ info = <<>>
    /\ listing = <<>>
    /\ chain = NoChain
    /\ channel = <<>>
    /\ topics_map = [t \in {} |-> 0]
    /\ pc = "playlists"
    /\ pi = 1
    /\ ti = 1
    /\ topic_node = 0
    /\ topic_short_title = None
    /\ thumbnail = None
    /\ next_item_url = None
    /\ item_count = 0
    /\ current_url = None
    /\ item_id = None
    /\ first_item_index_in_exercise = 0
    /\ exercise_node = 0
    /\ i = 0
    /\ page_html = NoDom
    /\ question = NoQuestion
    /\ trace = <<>>
    /\ extract_log = <<>>
    /\ walk_base = 0

\* A call of make_fully_qualified_url: on given_url, then on what it returned.
Normalize ==
    /\ Len(normalized) < 2
    /\ normalized' = Append(normalized,
                            make_fully_qualified_url(
                                IF normalized = <<>> THEN given_url
                                ELSE normalized[Len(normalized)]))
    /\ UNCHANGED <<given_url, world, chain, tree, pc, pi, ti, walker, trace,
                   extract_log, walk_base>>

UrlNext == Normalize

UrlSpec == UrlInit /\ [][UrlNext]_vars

(***************************************************************************)
(* Vocabulary of the properties.                                           *)
(***************************************************************************)
\* The run ended with an exception of fetch_youtube_playlists (no topic link
\* was ever resolved), or with one of fetch_assessment_topic_items.
HarvestCrashed == pc = "crashed" /\ topic_node = 0

WalkCrashed == pc = "crashed" /\ topic_node # 0

\* fetch_assessment_topic_items is running, or has just returned normally.
Walking == pc \in {"nav", "extract", "degraded", "retitle", "walked"}

\* The exercise nodes the current walk has attached to its topic node.
WalkUnits ==
    LET children == channel[topic_node].children
    IN SubSeq(children, walk_base + 1, Len(children))

\* Number of questions the current walk has appended.
Fed == Cardinality({ k \in DOMAIN extract_log : extract_log[k].topic = ti })

\* A question has just been appended: page_html is the DOM it was parsed
\* from, trace the calls made for it.
JustAppended == pc \in {"nav", "retitle", "walked"} /\ item_count > 0

\* The next link of dom is absent or points to the 'null' target.
LinkEnds(dom) == ~dom.next_link \/ dom.next_href = "/item/null"

\* URL of the j-th item page of the topic whose link is listing[t].
ChainUrl(t, j) == ORIGIN \o ItemHref(LastSegment(listing[t].href), j)

CountOps(op) == Cardinality({ k \in DOMAIN trace : trace[k].op = op })

RECURSIVE SleepsOf(_)
SleepsOf(tr) ==
    IF tr = <<>> THEN <<>>
    ELSE IF Head(tr).op = "sleep" THEN <<Head(tr).secs>> \o SleepsOf(Tail(tr))
    ELSE SleepsOf(Tail(tr))

(***************************************************************************)
(* C1: when the walk of a topic has finished, having appended N questions, *)
(* it has attached ceil(N/5) exercise nodes to the topic, every one of     *)
(* them but the last holds exactly 5 questions, and the title of the last  *)
(* ends with the upper bound N.                                            *)
(***************************************************************************)
C1_Grouping ==
    pc = "walked" =>
        LET us == WalkUnits
            N == Fed
        IN /\ Len(us) = (N + QUESTIONS_PER_EXERCISE - 1) \div QUESTIONS_PER_EXERCISE
           /\ \A k \in 1..Len(us) :
                /\ us[k].kind = "exercise"
                /\ k < Len(us) => Len(us[k].questions) = QUESTIONS_PER_EXERCISE
           /\ N > 0 => EndsWith(us[Len(us)].title, "-" \o ToString(N))

C1_Witness ==
    /\ pc = "walked"
    /\ Fed = QUESTIONS_PER_EXERCISE + 1
    /\ Len(WalkUnits) = 2
    /\ Len(WalkUnits[2].questions) = 1

(***************************************************************************)
(* C2: the walk of a chain of K pages never appends more than K questions  *)
(* and reaches the end of the loop exactly when K are appended; the parser *)
(* returns no next URL exactly when the next link of the parsed page is    *)
(* absent or points to 'null', which is the case on the K-th page only;    *)
(* and the walk terminates: every step of it increases a measure (items    *)
(* done, then position within the item) that the chain length bounds.      *)
(***************************************************************************)
\* Steps of the walk of one item: navigation, 4 attempts, degraded attempt.
WalkMeasure ==
    (RETRIES + 3) * item_count
        + (CASE pc = "nav" -> 0
             [] pc = "extract" -> 1 + i
             [] pc = "degraded" -> 1 + RETRIES
             [] pc = "retitle" -> 0
             [] pc = "walked" -> 1
             [] OTHER -> 0)

C2_Progress ==
    (Walking /\ Walking') =>
        /\ WalkMeasure' > WalkMeasure
        /\ WalkMeasure' <= (RETRIES + 3) * chain.len + 1

C2_ChainCount ==
    /\ Walking => item_count <= chain.len /\ Fed = item_count
    /\ pc \in {"retitle", "walked"} => item_count = chain.len
    /\ JustAppended =>
          /\ (next_item_url = None) <=> LinkEnds(page_html)
          /\ LinkEnds(page_html) <=> PageNo(current_url) = chain.len
          /\ (pc = "nav") <=> (next_item_url # None)

C2_WalkTerminates == []C2_ChainCount /\ [][C2_Progress]_vars

C2_Witness ==
    /\ pc = "walked"
    /\ chain.len = 3
    /\ item_count = 3
    /\ chain.last = "null"
    /\ page_html.next_link

(***************************************************************************)
(* C3: a question appended at the 4th extraction attempt on its page (3    *)
(* failures, then a success) was preceded by exactly 3 sleeps, of 1, 2 and *)
(* 4 seconds in that order; it is the result of parsing the DOM of that    *)
(* 4th attempt without skip_missing_images, and no pass with               *)
(* skip_missing_images was made for the item.                              *)
(***************************************************************************)
LastQuestion ==
    LET qs == channel[topic_node].children[exercise_node].questions
    IN qs[Len(qs)]

C3_RetryBackoff ==
    (JustAppended /\ CountOps("html") = 4) =>
        /\ SleepsOf(trace) = <<1, 2, 4>>
        /\ CountOps("parse_skip") = 0
        /\ i = 3
        /\ fetch_assessment_item(page_html, item_id, FALSE).ok
        /\ LastQuestion = fetch_assessment_item(page_html, item_id, FALSE).question
        /\ LastQuestion.id = LastSegment(current_url)

C3_Witness ==
    /\ JustAppended
    /\ CountOps("html") = 4
    /\ CountOps("sleep") = 3
    /\ pc = "nav"

(***************************************************************************)
(* C4: the pass with skip_missing_images is made only after 4 failed       *)
(* normal attempts (with their sleeps of 1, 2, 4 and 8 seconds) and at     *)
(* most once per item; when the DOM it captures lacks nothing but <img>    *)
(* tags inside image blocks, it succeeds: the question is appended, its    *)
(* Markdown is that of the page without the image blocks that lack their   *)
(* <img>, and the walk goes on to the page's next URL.                     *)
(***************************************************************************)
MissingImage(node) == node.nimg = 1 /\ ~node.img

\* The child nodes of the three containers the parser reads.
Range3(dom) ==
    { dom.stem[k] : k \in DOMAIN dom.stem }
        \cup { dom.explain_ans[k] : k \in DOMAIN dom.explain_ans }
        \cup { dom.explain[k] : k \in DOMAIN dom.explain }

\* An image block of the DOM lacks its <img>, and nothing else is wrong.

OnlyImagesMissing(dom) ==
    /\ dom.has_stem
    /\ dom.has_correct
    /\ \A node \in Range3(dom) : node.nimg <= 1
    /\ \E node \in Range3(dom) : MissingImage(node)

WithoutMissingImages(nodes) == SelectSeq(nodes, LAMBDA node : ~MissingImage(node))

C4_DegradedFallback ==
    /\ pc = "degraded" =>
          /\ i = RETRIES - 1
          /\ CountOps("html") = 4
          /\ CountOps("parse_skip") = 0
          /\ SleepsOf(trace) = <<1, 2, 4, 8>>
    /\ Walking \/ pc = "crashed" => CountOps("parse_skip") <= 1
    /\ (CountOps("parse_skip") = 1 /\ OnlyImagesMissing(page_html)) =>
          /\ JustAppended
          /\ CountOps("html") = 5
          /\ LastQuestion.id = item_id
          /\ LastQuestion.question =
                _process_text_into_markdown(
                    WithoutMissingImages(page_html.stem), FALSE).val
          /\ next_item_url =
                (IF PageNo(current_url) < chain.len
                 THEN ORIGIN \o ItemHref(SubSeq(item_id, 1, 1), PageNo(current_url) + 1)
                 ELSE None)
          /\ (pc = "nav") <=> (PageNo(current_url) < chain.len)

C4_Witness ==
    /\ pc = "nav"
    /\ CountOps("parse_skip") = 1
    /\ OnlyImagesMissing(page_html)
    /\ Len(LastQuestion.question) <
          Len(fetch_assessment_item(RenderedDom(current_url, "ok", chain),
                                    item_id, FALSE).question.question)

(***************************************************************************)
(* The run is over by an exception raised after the 4 normal attempts and  *)
(* the pass with skip_missing_images were made on an item (a hard failure).*)
(***************************************************************************)
HardFailure == pc = "crashed" /\ CountOps("html") = RETRIES + 1

(***************************************************************************)
(* C5 (as claimed): a hard failure on an item of a topic aborts the walk   *)
(* of that topic only, and the topics listed after it are still visited:   *)
(* the run can be over after a hard failure only if the failing topic was  *)
(* the last one listed.                                                    *)
(***************************************************************************)
C5_CrawlContinues == HardFailure => ti = Len(listing)

(***************************************************************************)
(* C6: after a hard failure on the (m+1)-th item of a topic, the m         *)
(* questions appended before are still in the exercise nodes of the walk,  *)
(* five to a node in chain order, and no question is attached for the      *)
(* failing page.                                                           *)
(***************************************************************************)
RECURSIVE CountQuestions(_)
CountQuestions(nodes) ==
    IF nodes = <<>> THEN 0
    ELSE (IF Head(nodes).kind = "exercise" THEN Len(Head(nodes).questions) ELSE 0)
            + CountQuestions(Tail(nodes))

C6_NoRollback ==
    HardFailure =>
        LET m == item_count
            us == WalkUnits
        IN /\ Fed = m
           /\ PageNo(current_url) = m + 1
           /\ CountQuestions(us) = m
           /\ \A j \in 1..m :
                LET k == ((j - 1) \div QUESTIONS_PER_EXERCISE) + 1
                    p == ((j - 1) % QUESTIONS_PER_EXERCISE) + 1
                IN /\ k <= Len(us)
                   /\ p <= Len(us[k].questions)
                   /\ us[k].questions[p].id = LastSegment(ChainUrl(ti, j))
           /\ \A k \in 1..Len(us) : \A p \in 1..Len(us[k].questions) :
                us[k].questions[p].id # item_id

C6_Witness ==
    /\ HardFailure
    /\ item_count = 2
    /\ Len(WalkUnits) = 1
    /\ Len(WalkUnits[1].questions) = 2

(***************************************************************************)
(* C7 (as claimed): a failing navigation or capture call is retried like a *)
(* failing extraction, so an exception ends the run only after the 4       *)
(* attempts with their 4 sleeps and the pass with skip_missing_images were *)
(* made on the item: the walk of a topic ends with an exception only then. *)
(***************************************************************************)
C7_NavigationRetried ==
    WalkCrashed => CountOps("html") = RETRIES + 1 /\ CountOps("sleep") = RETRIES

(***************************************************************************)
(* C8: the questions are appended topic after topic in listing order, and  *)
(* within a topic in chain order: the j-th question appended for a topic   *)
(* was parsed from the j-th URL of its chain and is the j-th question of   *)
(* the topic node's exercise nodes; nothing is appended for a topic that   *)
(* the loop over the listing has not reached.                              *)
(***************************************************************************)
\* Position within its topic of the a-th appended question.
IndexInTopic(a) ==
    Cardinality({ b \in 1..a : extract_log[b].topic = extract_log[a].topic })

Videos(node) == Cardinality({ k \in DOMAIN node.children : node.children[k].kind = "video" })

RECURSIVE CountAll(_)
CountAll(nodes) ==
    IF nodes = <<>> THEN 0
    ELSE CountQuestions(Head(nodes).children) + CountAll(Tail(nodes))

C8_Ordering ==
    /\ \A a, b \in DOMAIN extract_log :
          a < b => extract_log[a].topic <= extract_log[b].topic
    /\ \A a \in DOMAIN extract_log :
          LET e == extract_log[a]
              j == IndexInTopic(a)
              node == channel[e.node]
              k == Videos(node) + ((j - 1) \div QUESTIONS_PER_EXERCISE) + 1
              p == ((j - 1) % QUESTIONS_PER_EXERCISE) + 1
          IN /\ e.topic <= ti
             /\ e.topic <= Len(listing)
             /\ e.url = ChainUrl(e.topic, j)
             /\ e.id = LastSegment(e.url)
             /\ k <= Len(node.children)
             /\ node.children[k].kind = "exercise"
             /\ p <= Len(node.children[k].questions)
             /\ node.children[k].questions[p].id = e.id
    /\ CountAll(channel) = Len(extract_log)

C8_Witness ==
    /\ Len(extract_log) = 4
    /\ extract_log[1].topic = 1
    /\ extract_log[3].topic = 1
    /\ extract_log[4].topic = 2
    /\ pc = "nav"

(***************************************************************************)
(* Vocabulary of the taxonomy match.                                       *)
(***************************************************************************)
\* The topic link listing[t] has been given its topic node.
Resolved(t) == t < ti \/ (t = ti /\ (Walking \/ WalkCrashed))

TopicText(t) == Strip(listing[t].text)

\* Playlists harvested so far; their nodes are the first children of the
\* channel, in the order of info.
Harvested == IF pc = "playlists" \/ HarvestCrashed THEN pi - 1 ELSE Len(info)

\* Position in info of the harvested playlist titled title, 0 if there is none.
PlaylistTitled(title) ==
    LET ps == { p \in 1..Harvested : info[p].title = title }
    IN IF ps = {} THEN 0 ELSE CHOOSE p \in ps : TRUE

\* The topic link listing[t] maps in QUESTION_VIDEO_MAP to the title of a
\* harvested playlist; MatchOf is the position of that playlist.
MatchOf(t) ==
    IF TopicText(t) \in DOMAIN QUESTION_VIDEO_MAP
       /\ QUESTION_VIDEO_MAP[TopicText(t)] # None
    THEN PlaylistTitled(QUESTION_VIDEO_MAP[TopicText(t)])
    ELSE 0

Matched(t) == MatchOf(t) # 0

CompositeTitle(t) ==
    TopicText(t) \o " (" \o info[MatchOf(t)].title \o ")"

(***************************************************************************)
(* C9 (as claimed): the topic node of a topic matched to a playlist has    *)
(* the assessment topic's identifier, the composite title and the          *)
(* assessment topic's thumbnail.                                           *)
(***************************************************************************)
C9_OwnIdentifier ==
    \A t \in DOMAIN listing :
        (Resolved(t) /\ Matched(t)) =>
            LET node == channel[MatchOf(t)]
            IN /\ node.source_id = LastSegment(listing[t].href)
               /\ node.title = CompositeTitle(t)
               /\ node.thumbnail = listing[t].img

(***************************************************************************)
(* C9 (amended): the topic node of a topic matched to a playlist is the    *)
(* playlist's node: it keeps the playlist's identifier, and has the        *)
(* composite title and the assessment topic's thumbnail.                   *)
(***************************************************************************)
C9_PlaylistIdentifier ==
    \A t \in DOMAIN listing :
        (Resolved(t) /\ Matched(t)) =>
            LET node == channel[MatchOf(t)]
            IN /\ node.source_id = info[MatchOf(t)].id
               /\ node.title = CompositeTitle(t)
               /\ node.thumbnail = listing[t].img
               /\ (t = ti => topic_node = MatchOf(t))

C9_Witness ==
    /\ pc = "extract"
    /\ Matched(ti)
    /\ channel[topic_node].title = "Genetics (Genetics pathology)"
    /\ channel[topic_node].source_id = "PLgen"

(***************************************************************************)
(* C10: a topic whose name maps to the title of a harvested playlist gets  *)
(* that playlist's node, with its videos, re-titled "name (playlist        *)
(* title)" and with the topic's thumbnail; any other topic (name not in    *)
(* the map, mapped to None, or mapped to a title that was not harvested)   *)
(* gets a new node, appended to the channel, made of the topic link's id,  *)
(* text and image only; and a playlist node no topic was matched to is as  *)
(* the harvest made it.  Stated of every state ResolveTopic leads to, for  *)
(* the topic just resolved and those resolved before it.                   *)
(***************************************************************************)
\* Position in the channel of the new node made for the unmatched topic t.
NewNodeOf(t) ==
    Harvested + Cardinality({ u \in 1..t : ~Matched(u) })

HarvestedNode(p) ==
    [source_id |-> info[p].id, title |-> info[p].title, thumbnail |-> None,
     children |-> FetchVideos(info[p].entries, 1, <<>>).nodes]

\* ResolveTopic has just run for listing[ti].
JustResolved == pc = "nav" /\ item_count = 0

C10_Resolve ==
    JustResolved =>
        /\ \A t \in 1..ti :
              LET m == MatchOf(t)
              IN IF m # 0
                 THEN LET node == channel[m]
                          videos == HarvestedNode(m).children
                      IN /\ node.title = TopicText(t) \o " (" \o info[m].title \o ")"
                         /\ node.thumbnail = listing[t].img
                         /\ node.source_id = info[m].id
                         /\ Len(node.children) >= Len(videos)
                         /\ SubSeq(node.children, 1, Len(videos)) = videos
                         /\ (t = ti => topic_node = m)
                 ELSE /\ NewNodeOf(t) <= Len(channel)
                      /\ LET node == channel[NewNodeOf(t)]
                         IN /\ node.source_id = LastSegment(listing[t].href)
                            /\ node.title = TopicText(t)
                            /\ node.thumbnail = listing[t].img
                            /\ Videos(node) = 0
                            /\ (t = ti => node.children = <<>>)
                      /\ (t = ti => topic_node = NewNodeOf(t))
        /\ \A p \in 1..Harvested :
              (\A t \in 1..ti : MatchOf(t) # p) => channel[p] = HarvestedNode(p)
        /\ Len(channel) = Harvested + Cardinality({ t \in 1..ti : ~Matched(t) })

C10_Witness ==
    /\ JustResolved
    /\ ti = 2
    /\ Matched(1)
    /\ ~Matched(2)
    /\ TopicText(2) = "Anesthesiology"
    /\ Len(channel) = 2
    /\ channel[1].title = "Genetics (Genetics pathology)"
    /\ channel[2].title = "Anesthesiology"

(***************************************************************************)
(* C11: when the walk of a topic has finished, having appended N >= 1      *)
(* questions, the title of every exercise node of the walk states the      *)
(* 1-based positions of the questions the node holds: the k-th node        *)
(* (k = 0, 1, ...) that is not the last is titled with 5k+1 - 5k+5 and     *)
(* holds the questions of the chain pages 5k+1 .. 5k+5; the last one is    *)
(* titled with first_item_index_in_exercise + 1 - N and holds the          *)
(* questions of the pages from there to N.                                 *)
(***************************************************************************)
TitleRange(first_item, last_item) ==
    " Questions " \o ToString(first_item) \o "-" \o ToString(last_item)

C11_TitleStatesPositions ==
    (pc = "walked" /\ Fed >= 1) =>
        LET us == WalkUnits
            N == Fed
        IN /\ Len(us) >= 1
           /\ first_item_index_in_exercise = QUESTIONS_PER_EXERCISE * (Len(us) - 1)
           /\ \A k \in 1..Len(us) :
                LET first == QUESTIONS_PER_EXERCISE * (k - 1) + 1
                    last == IF k < Len(us) THEN QUESTIONS_PER_EXERCISE * k ELSE N
                    qs == us[k].questions
                IN /\ EndsWith(us[k].title, TitleRange(first, last))
                   /\ Len(qs) = last - first + 1
                   /\ \A p \in 1..Len(qs) :
                        qs[p].id = LastSegment(ChainUrl(ti, first + p - 1))

C11_Witness ==
    /\ pc = "walked"
    /\ Fed = QUESTIONS_PER_EXERCISE + 1
    /\ EndsWith(WalkUnits[1].title, " Questions 1-5")
    /\ EndsWith(WalkUnits[2].title, " Questions 6-6")
    /\ first_item_index_in_exercise = QUESTIONS_PER_EXERCISE

(***************************************************************************)
(* C12 (as claimed): make_fully_qualified_url puts "http:" in front of a   *)
(* URL that starts with "//"; resolves a relative URL against the origin   *)
(* https://open.osmosis.org; returns every other absolute URL (one with a  *)
(* scheme) unchanged; and applied to its own result returns it unchanged.  *)
(***************************************************************************)
\* u begins with a scheme: letters, then a colon, before any slash.
RECURSIVE SchemeEnd(_, _)
SchemeEnd(u, k) ==
    IF k > Len(u) \/ SubSeq(u, k, k) = "/" THEN 0
    ELSE IF SubSeq(u, k, k) = ":" THEN k - 1
    ELSE SchemeEnd(u, k + 1)

IsAbsolute(u) == SchemeEnd(u, 1) > 0

IsProtocolRelative(u) == StartsWith(u, "//")

IsRelative(u) == ~IsAbsolute(u) /\ ~IsProtocolRelative(u)

\* The relative reference u resolved against the origin (whose path is "/").
ResolvedAgainstOrigin(u) ==
    IF StartsWith(u, "/") THEN ORIGIN \o u ELSE ORIGIN \o "/" \o u

C12_Normalization ==
    Len(normalized) >= 1 =>
        /\ IsProtocolRelative(given_url) => normalized[1] = "http:" \o given_url
        /\ IsRelative(given_url) => normalized[1] = ResolvedAgainstOrigin(given_url)
        /\ IsAbsolute(given_url) => normalized[1] = given_url
        /\ Len(normalized) = 2 => normalized[2] = normalized[1]

(***************************************************************************)
(* C13: the taxonomy match is made only after the whole video taxonomy has *)
(* been harvested.  While playlists are being harvested (and when the run  *)
(* ends with an exception of the harvest) no topic link has been resolved  *)
(* and no page walked; once the assessment crawl has begun,                *)
(* every playlist of the channel has its node among the channel's children *)
(* and is registered in topics_map under its title, and the channel holds  *)
(* nothing but these nodes and the new nodes of the unmatched topics (no   *)
(* playlist is harvested later).                                           *)
(***************************************************************************)
C13_HarvestBeforeMatch ==
    /\ pc = "playlists" =>
          /\ ti = 1
          /\ topic_node = 0
          /\ extract_log = <<>>
          /\ Len(channel) = pi - 1
    /\ HarvestCrashed =>
          /\ ti = 1
          /\ extract_log = <<>>
          /\ Len(channel) = pi
    /\ (pc # "playlists" /\ ~HarvestCrashed) =>
          /\ pi = Len(info) + 1
          /\ DOMAIN topics_map = { info[p].title : p \in 1..Len(info) }
          /\ \A p \in 1..Len(info) :
                /\ topics_map[info[p].title] = p
                /\ channel[p].source_id = info[p].id
          /\ Len(channel) =
                Len(info) + Cardinality({ t \in DOMAIN listing :
                                            Resolved(t) /\ ~Matched(t) })

C13_Witness ==
    /\ JustResolved
    /\ ti = 1
    /\ Len(info) = 1
    /\ Matched(1)
    /\ topics_map["Genetics pathology"] = 1
    /\ topic_node = 1

(***************************************************************************)
(* The processing of an item has ended: its question was appended (and the *)
(* walk went on, or returned), or a hard failure on it ended the run.      *)
(***************************************************************************)
EndOfItem ==
    \/ pc \in {"nav", "retitle", "walked", "topics", "finished"}
    \/ HardFailure

\* The exercise nodes among the children of the topic nodes.
ExerciseUnits ==
    { <<n, k>> \in UNION { {n} \X DOMAIN channel[n].children : n \in DOMAIN channel } :
        channel[n].children[k].kind = "exercise" }

(***************************************************************************)
(* C14 (as claimed): an exercise node is created and attached only when an *)
(* extracted question is handed over, so whenever the processing of an     *)
(* item has ended (also by a hard failure on an item whose running index   *)
(* is a multiple of 5) every exercise node attached to a topic node holds  *)
(* at least 1 and at most 5 questions.                                     *)
(***************************************************************************)
C14_UnitsNeverEmpty ==
    EndOfItem =>
        \A u \in ExerciseUnits :
            LET qs == channel[u[1]].children[u[2]].questions
            IN Len(qs) >= 1 /\ Len(qs) <= QUESTIONS_PER_EXERCISE

(***************************************************************************)
(* Vocabulary of the retry steps.                                          *)
(***************************************************************************)
\* Positions in trace of the captures (one per extraction attempt), in order.
Captures ==
    SelectSeq([k \in 1..Len(trace) |-> k], LAMBDA k : trace[k].op = "html")

\* The calls made between the a-th capture of the item and the next one.
BetweenAttempts(a) ==
    SubSeq(trace, Captures[a] + 1, Captures[a + 1] - 1)

\* A step from one failed attempt on an item to the next attempt on it.
RetryStep == pc = "extract" /\ pc' \in {"extract", "degraded"}

(***************************************************************************)
(* C15 (as claimed): between two extraction attempts on an item the walker *)
(* first waits 2^attempt seconds and then navigates to the item's URL.     *)
(***************************************************************************)
C15_WaitThenNavigate ==
    \A a \in 1..(Len(Captures) - 1) :
        BetweenAttempts(a) =
            << Ev("sleep", None, 2 ^ (a - 1)), Ev("get", current_url, 0) >>

(***************************************************************************)
(* C15 (amended): between two consecutive extraction attempts on an item   *)
(* (attempt index k = 0..3 and the next one) the walker makes exactly one  *)
(* navigation, to the canonical URL of that item, and then exactly one     *)
(* wait, of 2^k seconds: the navigation comes first, the wait second.  The *)
(* URL is the one the first navigation of the item led to, and the step    *)
(* from a failed attempt to the next changes neither item_count nor the    *)
(* tree.                                                                   *)
(***************************************************************************)
C15_RetryOrder ==
    /\ \A a \in 1..(Len(Captures) - 1) :
          BetweenAttempts(a) =
              << Ev("get", current_url, 0), Ev("sleep", None, 2 ^ (a - 1)) >>
    /\ Len(Captures) >= 1 =>
          /\ trace[1].op = "get"
          /\ current_url = Canonical(trace[1].url)
          /\ item_id = LastSegment(current_url)

C15_Unchanged ==
    RetryStep =>
        /\ item_count' = item_count
        /\ channel' = channel
        /\ current_url' = current_url
        /\ next_item_url' = next_item_url
        /\ i' = IF pc' = "extract" THEN i + 1 ELSE i

C15_NavigateThenWait == []C15_RetryOrder /\ [][C15_Unchanged]_vars

C15_Witness ==
    /\ pc = "extract"
    /\ i = 2
    /\ item_count = 1
    /\ Len(Captures) = 2
    /\ BetweenAttempts(1) = << Ev("get", current_url, 0), Ev("sleep", None, 1) >>
    /\ trace[Len(trace)] = Ev("sleep", None, 2)

(***************************************************************************)
(* C16 (as claimed): when the walk of a topic has finished, the titles of  *)
(* all its exercise nodes begin with the same topic name: the name in the  *)
(* re-titled last node is the name in the provisional titles of the nodes  *)
(* before it, for topics with a node of their own and for topics that were *)
(* given a playlist's node (titled "name (playlist title)").               *)
(***************************************************************************)
\* The title of the k-th of n exercise nodes of a walk of N questions,
\* without the " Questions first-last" it ends with.
TopicNameIn(title, k, n, N) ==
    LET first == QUESTIONS_PER_EXERCISE * (k - 1) + 1
        last == IF k < n THEN QUESTIONS_PER_EXERCISE * k ELSE N
    IN SubSeq(title, 1, Len(title) - Len(TitleRange(first, last)))

C16_SameTopicName ==
    pc = "walked" =>
        LET us == WalkUnits
            n == Len(us)
        IN \A k \in 1..n :
              TopicNameIn(us[k].title, k, n, Fed) = TopicNameIn(us[n].title, n, n, Fed)

(***************************************************************************)
(* C17 (as claimed): when a hard failure ends the walk of a topic after m  *)
(* questions were appended (m >= 1), the last exercise node that holds     *)
(* questions has a title whose upper bound is m: the re-title of the last  *)
(* node is made on this path too.                                          *)
(***************************************************************************)
\* Position among the walk's exercise nodes of the last one with questions.
LastUnitWithItems ==
    LET held == { k \in 1..Len(WalkUnits) : Len(WalkUnits[k].questions) > 0 }
    IN CHOOSE k \in held : \A h \in held : h <= k

C17_AbortRetitled ==
    (HardFailure /\ item_count >= 1) =>
        EndsWith(WalkUnits[LastUnitWithItems].title, "-" \o ToString(item_count))

(***************************************************************************)
(* C18: after a complete run every topic node is a child of the channel    *)
(* exactly once and every exercise node is a child of exactly one topic    *)
(* node.  The channel's children are the playlist nodes and one new node   *)
(* for every topic that was not matched, nothing else; a matched topic has *)
(* the playlist's node, which holds the playlist's videos in their order   *)
(* and after them the topic's exercise nodes in the order of the walk; an  *)
(* unmatched topic has a new node holding its exercise nodes only; and a   *)
(* playlist node no topic was matched to is as the harvest made it.        *)
(***************************************************************************)
\* Position in the channel of the topic node of listing[t].
NodeOf(t) == IF Matched(t) THEN MatchOf(t) ELSE NewNodeOf(t)

\* Number of questions appended for listing[t], and of exercise nodes due.
ItemsOf(t) == Cardinality({ a \in DOMAIN extract_log : extract_log[a].topic = t })

UnitsOf(t) == (ItemsOf(t) + QUESTIONS_PER_EXERCISE - 1) \div QUESTIONS_PER_EXERCISE

C18_TreeShape ==
    pc = "finished" =>
        /\ Len(channel) =
              Len(info) + Cardinality({ t \in DOMAIN listing : ~Matched(t) })
        /\ \A n, m \in DOMAIN channel :
              n # m => channel[n].source_id # channel[m].source_id
        /\ \A t, u \in DOMAIN listing : t # u => NodeOf(t) # NodeOf(u)
        /\ \A u, v \in ExerciseUnits :
              u # v => channel[u[1]].children[u[2]].source_id
                         # channel[v[1]].children[v[2]].source_id
        /\ \A t \in DOMAIN listing :
              LET node == channel[NodeOf(t)]
                  videos == IF Matched(t) THEN HarvestedNode(MatchOf(t)).children
                            ELSE <<>>
                  nv == Len(videos)
              IN /\ Len(node.children) = nv + UnitsOf(t)
                 /\ SubSeq(node.children, 1, nv) = videos
                 /\ \A k \in 1..UnitsOf(t) :
                      LET unit == node.children[nv + k]
                          first == QUESTIONS_PER_EXERCISE * (k - 1) + 1
                      IN /\ unit.kind = "exercise"
                         /\ unit.source_id = LastSegment(ChainUrl(t, first))
                         /\ unit.questions[1].id = unit.source_id
        /\ \A p \in 1..Len(info) :
              (\A t \in DOMAIN listing : MatchOf(t) # p) =>
                  channel[p] = HarvestedNode(p)

C18_Witness ==
    /\ pc = "finished"
    /\ Len(listing) = 2
    /\ ~Matched(1)
    /\ Matched(2)
    /\ Len(channel) = 2
    /\ NodeOf(2) = 1
    /\ Len(channel[1].children) = 3
    /\ channel[1].children[2].kind = "video"
    /\ channel[1].children[3].kind = "exercise"
    /\ Len(channel[2].children) = 1
    /\ channel[2].children[1].kind = "exercise"
    /\ Len(channel[2].children[1].questions) = QUESTIONS_PER_EXERCISE

=============================================================================
